---- MODULE Spec2Model ----
(***************************************************************************)
(* Retail Sales Analytics (retail_sales_analysis.py): a linear PySpark     *)
(* script.  A dataframe is a schema (set of column names) and a bag of     *)
(* rows; a row is a record over the schema.  The script's statements are   *)
(* the actions, in program order; any statement may raise, and an uncaught *)
(* exception ends the process.  The output directory and the Hive          *)
(* metastore outlive a run of the script.  Spark evaluates a frame when an  *)
(* action needs it; here a frame is evaluated where the script defines it, *)
(* which gives it one of the values an evaluation may give.                *)
(***************************************************************************)
EXTENDS Integers, Sequences, FiniteSets, Bags, TLC

VARIABLES
    pc,                     \* the statement the script is at
    run,                    \* which execution of the script this is
    session,                \* "none" | "active" | "stopped"
    exit_code,              \* <<status>> once the process has exited, <<>> before
    stderr,                 \* what the interpreter reported
    failed_at,              \* the statement that raised, "" if none
    output_path,            \* line 26, a sequence of path segments
    csv,                    \* the CSV files under base_path
    orders_df, order_items_df, order_payments_df, products_df, sellers_df,
    fact_orders_df, top_seller_products_df,
    customer_freq,          \* the rows shown by the order-frequency report
    files,                  \* location -> parquet file set, or NoFile
    catalog,                \* the metastore entry retail_fact_orders, or NoTable
    write_ok, registered, validated,   \* what this run has executed so far
    catalog0,               \* the catalog when this run started
    files_prev, catalog_prev, prev_ok  \* files, catalog, outcome after the previous run

vars == <<pc, run, session, exit_code, stderr, failed_at, output_path, csv,
          orders_df, order_items_df, order_payments_df, products_df, sellers_df,
          fact_orders_df, top_seller_products_df, customer_freq, files, catalog,
          write_ok, registered, validated, catalog0, files_prev, catalog_prev, prev_ok>>

dfs == <<orders_df, order_items_df, order_payments_df, products_df, sellers_df,
         fact_orders_df, top_seller_products_df, customer_freq>>

store == <<files, catalog>>

(***************************************************************************)
(* Bounds of the model.                                                    *)
(***************************************************************************)
MaxRows == 2        \* rows drawn freely per CSV file
MaxRuns == 2        \* executions of the script on the same input

(***************************************************************************)
(* Values.  An empty CSV field is read as a null.                          *)
(***************************************************************************)
NULL == -1
NullStr == ""
StringCols == {"product_category_name", "payment_type"}
NullOf(c) == IF c \in StringCols THEN NullStr ELSE NULL
\* col(c).isNull() on row r
IsNull(r, c) == r[c] = NullOf(c)

(***************************************************************************)
(* Bags of rows.                                                           *)
(***************************************************************************)
Single(r, n) == [x \in {r} |-> n]

RECURSIVE BagSum(_, _)
\* the bag union of the bags f[x], x in S
BagSum(S, f) ==
    IF S = {} THEN EmptyBag
    ELSE LET x == CHOOSE y \in S : TRUE
         IN  f[x] (+) BagSum(S \ {x}, f)

RECURSIVE BagsUpTo(_, _)
\* every bag of at most n rows drawn from K
BagsUpTo(K, n) ==
    IF n = 0 THEN {EmptyBag}
    ELSE LET B == BagsUpTo(K, n - 1)
         IN  B \cup {b (+) Single(k, 1) : b \in B, k \in K}

Rows(df) == BagToSet(df.rows)
\* number of rows of df (with multiplicity) whose column c holds v
CountWhere(df, c, v) == BagCardinality([r \in {q \in Rows(df) : q[c] = v} |-> df.rows[r]])
Restrict(r, cols) == [c \in cols |-> r[c]]

NoDF == [cols |-> {}, rows |-> EmptyBag]

(***************************************************************************)
(* CSV headers: the columns the script and its DDL name.                   *)
(***************************************************************************)
OrderCols == {"order_id", "customer_id"}
ItemCols == {"order_id", "order_item_id", "product_id", "seller_id", "price", "freight_value"}
PaymentCols == {"order_id", "payment_type", "payment_value"}
ProductCols == {"product_id", "product_category_name"}
SellerCols == {"seller_id"}

(***************************************************************************)
(* Dataframe operations.                                                   *)
(***************************************************************************)
\* spark.read.csv(path, header=True, inferSchema=True)
ReadCsv(cols, rows) == [cols |-> cols, rows |-> rows]

\* df.dropDuplicates(): one copy of every distinct row
DropDuplicatesAll(df) == [df EXCEPT !.rows = SetToBag(Rows(df))]

RECURSIVE Representatives(_, _, _)
\* the ways to keep one row of R for every key value in K
Representatives(K, R, key) ==
    IF K = {} THEN {{}}
    ELSE LET k == CHOOSE x \in K : TRUE
         IN  {S \cup {r} : S \in Representatives(K \ {k}, R, key),
                           r \in {q \in R : q[key] = k}}

\* variant: rows are compared on all columns
DropDuplicatesWholeRow(df, key) == {[df EXCEPT !.rows = SetToBag(Rows(df))]}
\* df.dropDuplicates([key]): the possible results; which row of each key
\* survives is the engine's choice
DropDuplicatesBy(df, key) ==
    {[df EXCEPT !.rows = SetToBag(S)] :
        S \in Representatives({r[key] : r \in Rows(df)}, Rows(df), key)}

\* df.fillna({col: value})
FillNa(df, c, v) ==
    LET fill(r) == IF IsNull(r, c) THEN [r EXCEPT ![c] = v] ELSE r
    IN  [df EXCEPT !.rows = BagSum(Rows(df), [r \in Rows(df) |-> Single(fill(r), df.rows[r])])]

\* variant: every join keeps its unmatched left rows
JoinOneKeepUnmatched(l, n, right, key, how) ==
    LET matches == {r \in Rows(right) : ~IsNull(l, key) /\ r[key] = l[key]}
    IN  IF matches = {}
        THEN Single(l @@ [c \in right.cols |-> NullOf(c)], n)
        ELSE BagSum(matches, [r \in matches |-> Single(l @@ r, n * right.rows[r])])
\* the rows one left row l (n copies) contributes to left.join(right, key, how);
\* a null key matches nothing
JoinOne(l, n, right, key, how) ==
    LET matches == {r \in Rows(right) : ~IsNull(l, key) /\ r[key] = l[key]}
    IN  IF matches = {}
        THEN IF how = "left"
             THEN Single(l @@ [c \in right.cols |-> NullOf(c)], n)
             ELSE EmptyBag
        ELSE BagSum(matches, [r \in matches |-> Single(l @@ r, n * right.rows[r])])

\* left.join(right, key, how), how in {"inner", "left"}
Join(left, right, key, how) ==
    [cols |-> left.cols \cup right.cols,
     rows |-> BagSum(Rows(left),
                     [l \in Rows(left) |-> JoinOne(l, left.rows[l], right, key, how)])]

(***************************************************************************)
(* Program constants.                                                      *)
(***************************************************************************)
TopRank == 5        \* filter(col("rank") <= 5)
ShowN == 10         \* show(10)

(***************************************************************************)
(* Window function: dense_rank() over (partition by seller_id order by     *)
(* price desc).  Descending order puts nulls last.                         *)
(***************************************************************************)
\* a sorts strictly before b in descending order, nulls last
Before(a, b) == a # NULL /\ (b = NULL \/ a > b)

RECURSIVE RankFrom(_, _, _, _, _)
\* variant: the rank grows at every row
RankFromRowNumber(P, c, prev, rank, first) ==
    IF P = {} THEN [x \in {} |-> 0]
    ELSE LET r == CHOOSE x \in P : \A y \in P : ~Before(y[c], x[c])
             k == IF first THEN 1 ELSE rank + 1
         IN  (r :> k) @@ RankFrom(P \ {r}, c, r[c], k, FALSE)
\* walk the partition P in window order; the rank grows by one whenever the
\* ordering value changes
RankFrom(P, c, prev, rank, first) ==
    IF P = {} THEN [x \in {} |-> 0]
    ELSE LET r == CHOOSE x \in P : \A y \in P : ~Before(y[c], x[c])
             k == IF first THEN 1 ELSE IF r[c] = prev THEN rank ELSE rank + 1
         IN  (r :> k) @@ RankFrom(P \ {r}, c, r[c], k, FALSE)

\* dense_rank().over(Window.partitionBy(pcol).orderBy(col(c).desc())) at row r
DenseRank(df, pcol, c, r) ==
    RankFrom({q \in Rows(df) : q[pcol] = r[pcol]}, c, NULL, 0, TRUE)[r]

RankedCols == {"seller_id", "product_id", "price"}

\* withColumn("rank", ...).filter(col("rank") <= 5).select(...)
TopSellerProducts(fact) ==
    LET kept == {r \in Rows(fact) : DenseRank(fact, "seller_id", "price", r) <= TopRank}
        out(r) == Restrict(r, RankedCols) @@ [rank |-> DenseRank(fact, "seller_id", "price", r)]
    IN  [cols |-> RankedCols \cup {"rank"},
         rows |-> BagSum(kept, [r \in kept |-> Single(out(r), fact.rows[r])])]

(***************************************************************************)
(* groupBy(c).count().orderBy(col("count").desc()).show(n)                 *)
(***************************************************************************)
GroupCount(df, c) ==
    {[key |-> v, count |-> CountWhere(df, c, v)] : v \in {r[c] : r \in Rows(df)}}

RECURSIVE SortDesc(_)
SortDesc(T) ==
    IF T = {} THEN <<>>
    ELSE LET m == CHOOSE x \in T : \A y \in T : y.count <= x.count
         IN  <<m>> \o SortDesc(T \ {m})

Min(a, b) == IF a < b THEN a ELSE b

\* the row sequences show(n) may print: which of several equal counts make
\* the cut is the engine's choice
ShowTop(G, n) ==
    {SortDesc(T) : T \in {U \in SUBSET G :
        /\ Cardinality(U) = Min(n, Cardinality(G))
        /\ \A t \in U, u \in G \ U : t.count >= u.count}}

(***************************************************************************)
(* Output location and catalog.                                            *)
(***************************************************************************)
DefaultOutputPath == <<"warehouse", "retail_analytics">>
OutputPaths == {DefaultOutputPath, <<"mnt", "curated">>}

\* f"{output_path}/fact_orders"
FactLocation(path) == Append(path, "fact_orders")

NoFile == [cols |-> {}, rows |-> EmptyBag]
NoTable == [cols |-> {}, location |-> <<>>]

\* CREATE EXTERNAL TABLE IF NOT EXISTS retail_fact_orders (...) LOCATION '...'
HiveCols == {"order_id", "order_item_id", "product_id", "seller_id", "price",
             "freight_value", "product_category_name", "payment_type", "payment_value"}
HiveLocation == <<"warehouse", "retail_analytics", "fact_orders">>
HiveTable == [cols |-> HiveCols, location |-> HiveLocation]
CreateIfNotExists(cat) == IF cat = NoTable THEN HiveTable ELSE cat

Locations == {FactLocation(p) : p \in OutputPaths} \cup {HiveLocation}

(***************************************************************************)
(* Control: the statements in program order.                               *)
(***************************************************************************)
\* variant: the table is registered before the files are written
StatementsHiveFirst == <<"session", "load", "profile", "clean", "fact", "insights",
                        "rank", "freq", "hive", "write", "validate", "stop">>
\* program order
Statements == <<"session", "load", "profile", "clean", "fact", "insights",
                "rank", "freq", "write", "hive", "validate", "stop">>

\* the statement after p; after the last one the script is done
Succ(p) ==
    LET i == CHOOSE j \in 1..Len(Statements) : Statements[j] = p
    IN  IF i = Len(Statements) THEN "done" ELSE Statements[i + 1]

Running == pc \in {Statements[i] : i \in 1..Len(Statements)}
Ended == pc \in {"done", "aborted"}

\* variant: the exception is caught and the script goes on
AfterExceptionSwallowed(p) == Succ(p)
\* where control goes when statement p raises: nothing catches it
AfterException(p) == "aborted"

\* the interpreter's exit status
ExitStatus(uncaught) == IF uncaught THEN 1 ELSE 0

(***************************************************************************)
(* The statements.                                                         *)
(***************************************************************************)
\* lines 15-20: SparkSession.builder...getOrCreate()
CreateSession ==
    /\ pc = "session"
    /\ session' = "active"
    /\ pc' = Succ(pc)
    /\ UNCHANGED <<run, exit_code, stderr, failed_at, output_path, csv, dfs, store,
                   write_ok, registered, validated, catalog0, files_prev, catalog_prev, prev_ok>>

\* lines 31-37: spark.read.csv(...)
LoadData ==
    /\ pc = "load"
    /\ orders_df' = ReadCsv(OrderCols, csv.orders)
    /\ order_items_df' = ReadCsv(ItemCols, csv.order_items)
    /\ order_payments_df' = ReadCsv(PaymentCols, csv.payments)
    /\ products_df' = ReadCsv(ProductCols, csv.products)
    /\ sellers_df' = ReadCsv(SellerCols, csv.sellers)
    /\ pc' = Succ(pc)
    /\ UNCHANGED <<run, session, exit_code, stderr, failed_at, output_path, csv,
                   fact_orders_df, top_seller_products_df, customer_freq, store,
                   write_ok, registered, validated, catalog0, files_prev, catalog_prev, prev_ok>>

\* a statement that only prints: row counts and null counts (lines 52-68),
\* revenue, top products, payment distribution (lines 96-113)
PrintOnly(at) ==
    /\ pc = at
    /\ pc' = Succ(pc)
    /\ UNCHANGED <<run, session, exit_code, stderr, failed_at, output_path, csv, dfs, store,
                   write_ok, registered, validated, catalog0, files_prev, catalog_prev, prev_ok>>

Profile == PrintOnly("profile")

\* lines 75-79
Clean ==
    /\ pc = "clean"
    /\ orders_df' \in DropDuplicatesBy(orders_df, "order_id")
    /\ order_items_df' = DropDuplicatesAll(order_items_df)
    /\ products_df' = FillNa(products_df, "product_category_name", "unknown")
    /\ pc' = Succ(pc)
    /\ UNCHANGED <<run, session, exit_code, stderr, failed_at, output_path, csv,
                   order_payments_df, sellers_df,
                   fact_orders_df, top_seller_products_df, customer_freq, store,
                   write_ok, registered, validated, catalog0, files_prev, catalog_prev, prev_ok>>

\* lines 84-90
FactOrders(items, orders, products, sellers, payments) ==
    Join(Join(Join(Join(items, orders, "order_id", "inner"),
                   products, "product_id", "left"),
              sellers, "seller_id", "left"),
         payments, "order_id", "left")

BuildFact ==
    /\ pc = "fact"
    /\ fact_orders_df' = FactOrders(order_items_df, orders_df, products_df,
                                    sellers_df, order_payments_df)
    /\ pc' = Succ(pc)
    /\ UNCHANGED <<run, session, exit_code, stderr, failed_at, output_path, csv,
                   orders_df, order_items_df, order_payments_df, products_df, sellers_df,
                   top_seller_products_df, customer_freq, store,
                   write_ok, registered, validated, catalog0, files_prev, catalog_prev, prev_ok>>

Insights == PrintOnly("insights")

\* lines 118-128
RankSellerProducts ==
    /\ pc = "rank"
    /\ top_seller_products_df' = TopSellerProducts(fact_orders_df)
    /\ pc' = Succ(pc)
    /\ UNCHANGED <<run, session, exit_code, stderr, failed_at, output_path, csv,
                   orders_df, order_items_df, order_payments_df, products_df, sellers_df,
                   fact_orders_df, customer_freq, store,
                   write_ok, registered, validated, catalog0, files_prev, catalog_prev, prev_ok>>

\* variant: the frame as loaded at line 32
FreqSourceAsLoaded == ReadCsv(OrderCols, csv.orders)
\* lines 133-137: orders_df is by now the deduplicated frame of line 75
FreqSource == orders_df

CustomerFrequency ==
    /\ pc = "freq"
    /\ customer_freq' \in ShowTop(GroupCount(FreqSource, "customer_id"), ShowN)
    /\ pc' = Succ(pc)
    /\ UNCHANGED <<run, session, exit_code, stderr, failed_at, output_path, csv,
                   orders_df, order_items_df, order_payments_df, products_df, sellers_df,
                   fact_orders_df, top_seller_products_df, store,
                   write_ok, registered, validated, catalog0, files_prev, catalog_prev, prev_ok>>

\* lines 142-147: write.mode("overwrite").format("parquet").save(...)
WriteFact ==
    /\ pc = "write"
    /\ files' = [files EXCEPT ![FactLocation(output_path)] = fact_orders_df]
    /\ write_ok' = TRUE
    /\ pc' = Succ(pc)
    /\ UNCHANGED <<run, session, exit_code, stderr, failed_at, output_path, csv, dfs, catalog,
                   registered, validated, catalog0, files_prev, catalog_prev, prev_ok>>

\* lines 152-168
CreateHiveTable ==
    /\ pc = "hive"
    /\ catalog' = CreateIfNotExists(catalog)
    /\ registered' = TRUE
    /\ pc' = Succ(pc)
    /\ UNCHANGED <<run, session, exit_code, stderr, failed_at, output_path, csv, dfs, files,
                   write_ok, validated, catalog0, files_prev, catalog_prev, prev_ok>>

\* lines 173-180: the query only prints
ValidateQuery ==
    /\ pc = "validate"
    /\ validated' = TRUE
    /\ pc' = Succ(pc)
    /\ UNCHANGED <<run, session, exit_code, stderr, failed_at, output_path, csv, dfs, store,
                   write_ok, registered, catalog0, files_prev, catalog_prev, prev_ok>>

\* line 185, then the script ends normally
StopSession ==
    /\ pc = "stop"
    /\ session' = "stopped"
    /\ exit_code' = <<ExitStatus(FALSE)>>
    /\ pc' = Succ(pc)
    /\ UNCHANGED <<run, stderr, failed_at, output_path, csv, dfs, store,
                   write_ok, registered, validated, catalog0, files_prev, catalog_prev, prev_ok>>

\* any statement raises: the script has no try/except/finally, so the
\* interpreter prints the traceback and exits
Uncaught ==
    /\ pc' = AfterException(pc)
    /\ failed_at' = pc
    /\ stderr' = "Traceback"
    /\ exit_code' = <<ExitStatus(TRUE)>>
    /\ UNCHANGED <<run, session, output_path, csv, dfs, catalog,
                   write_ok, registered, validated, catalog0, files_prev, catalog_prev, prev_ok>>

Raise ==
    /\ Running
    /\ pc # "write"
    /\ Uncaught
    /\ UNCHANGED files

\* the overwrite fails: the old file set may or may not have been removed
WriteFails ==
    /\ pc = "write"
    /\ Uncaught
    /\ \E old \in {files[FactLocation(output_path)], NoFile} :
           files' = [files EXCEPT ![FactLocation(output_path)] = old]

\* the script is executed again on the same input, in a new process
Rerun ==
    /\ Ended
    /\ run < MaxRuns
    /\ run' = run + 1
    /\ pc' = "session"
    /\ session' = "none"
    /\ exit_code' = <<>>
    /\ stderr' = ""
    /\ failed_at' = ""
    /\ orders_df' = NoDF /\ order_items_df' = NoDF /\ order_payments_df' = NoDF
    /\ products_df' = NoDF /\ sellers_df' = NoDF
    /\ fact_orders_df' = NoDF /\ top_seller_products_df' = NoDF
    /\ customer_freq' = <<>>
    /\ write_ok' = FALSE /\ registered' = FALSE /\ validated' = FALSE
    /\ catalog0' = catalog
    /\ files_prev' = files /\ catalog_prev' = catalog /\ prev_ok' = (pc = "done")
    /\ UNCHANGED <<output_path, csv, store>>

(***************************************************************************)
(* Inputs.                                                                 *)
(***************************************************************************)
Order(o, c) == [order_id |-> o, customer_id |-> c]
Item(o, i, p, s, price) ==
    [order_id |-> o, order_item_id |-> i, product_id |-> p, seller_id |-> s,
     price |-> price, freight_value |-> 1]
Payment(o, t, v) == [order_id |-> o, payment_type |-> t, payment_value |-> v]
Product(p, cat) == [product_id |-> p, product_category_name |-> cat]
Seller(s) == [seller_id |-> s]

Input(o, i, pay, prod, sel) ==
    [orders |-> o, order_items |-> i, payments |-> pay, products |-> prod, sellers |-> sel]

OrderKinds == {Order(o, c) : o \in {1, 2}, c \in {1, 2}}

\* duplicate orders and duplicate items
InputsClean ==
    {Input(o, i, Single(Payment(1, "card", 1), 1), Single(Product(1, NullStr), 1),
           Single(Seller(1), 1)) :
        o \in BagsUpTo(OrderKinds, MaxRows),
        i \in BagsUpTo({Item(1, 1, 1, 1, 1), Item(1, 2, 1, 1, 1), Item(2, 1, 1, 1, 1)}, MaxRows)}

\* matched, unmatched and null join keys; one to MaxRows payments per order
InputsJoin ==
    {Input(o, i, pay, prod, sel) :
        o \in BagsUpTo({Order(1, 1), Order(2, 1), Order(NULL, 1)}, MaxRows),
        i \in BagsUpTo({Item(1, 1, 1, 1, 1), Item(2, 1, 1, 1, 1),
                        Item(1, 1, NULL, 2, 1), Item(NULL, 1, 1, 1, 1)}, MaxRows),
        pay \in BagsUpTo({Payment(1, "card", 1)}, MaxRows),
        prod \in BagsUpTo({Product(1, NullStr), Product(NULL, "toys")}, MaxRows),
        sel \in BagsUpTo({Seller(1)}, MaxRows)}

\* a seller with TopRank distinct prices, and up to MaxRows further items
BulkItems == SetToBag({Item(1, k, 1, 1, k) : k \in 1..TopRank})
InputsRank ==
    {Input(Single(Order(1, 1), 1), BulkItems (+) i, pay, Single(Product(1, "toys"), 1),
           Single(Seller(1), 1)) :
        i \in BagsUpTo({Item(1, 1, 1, s, p) : s \in {1, NULL}, p \in {TopRank, TopRank + 1, NULL}},
                       MaxRows),
        pay \in BagsUpTo({Payment(1, "card", 1)}, MaxRows)}

\* ShowN customers with one order each, and up to MaxRows further orders
BulkOrders == SetToBag({Order(k + 2, k + 2) : k \in 1..ShowN})
InputsFreq ==
    {Input(BulkOrders (+) o, Single(Item(1, 1, 1, 1, 1), 1), Single(Payment(1, "card", 1), 1),
           Single(Product(1, "toys"), 1), Single(Seller(1), 1)) :
        o \in BagsUpTo(OrderKinds, MaxRows)}

\* duplicate orders only
InputsRun ==
    {Input(o, Single(Item(1, 1, 1, 1, 1), 1), Single(Payment(1, "card", 1), 1),
           Single(Product(1, NullStr), 1), Single(Seller(1), 1)) :
        o \in BagsUpTo({Order(1, 1), Order(1, 2)}, MaxRows)}

(***************************************************************************)
(* Specifications.                                                         *)
(***************************************************************************)
Start(inp, path) ==
    /\ pc = "session" /\ run = 1 /\ session = "none"
    /\ exit_code = <<>> /\ stderr = "" /\ failed_at = ""
    /\ output_path = path
    /\ csv = inp
    /\ orders_df = NoDF /\ order_items_df = NoDF /\ order_payments_df = NoDF
    /\ products_df = NoDF /\ sellers_df = NoDF
    /\ fact_orders_df = NoDF /\ top_seller_products_df = NoDF
    /\ customer_freq = <<>>
    /\ files = [l \in Locations |-> NoFile]
    /\ catalog = NoTable
    /\ write_ok = FALSE /\ registered = FALSE /\ validated = FALSE
    /\ catalog0 = NoTable
    /\ files_prev = [l \in Locations |-> NoFile] /\ catalog_prev = NoTable /\ prev_ok = FALSE

Step ==
    \/ CreateSession
    \/ LoadData
    \/ Profile
    \/ Clean
    \/ BuildFact
    \/ Insights
    \/ RankSellerProducts
    \/ CustomerFrequency
    \/ WriteFact
    \/ CreateHiveTable
    \/ ValidateQuery
    \/ StopSession

\* runs of the script that may fail at any statement and may be repeated
Init == \E inp \in InputsRun, path \in OutputPaths : Start(inp, path)
Next == Step \/ Raise \/ WriteFails \/ Rerun
Spec == Init /\ [][Next]_vars

\* one run in which no statement fails, over the richer inputs
InitData ==
    \E inp \in InputsClean \cup InputsJoin \cup InputsRank \cup InputsFreq :
        Start(inp, DefaultOutputPath)
SpecData == InitData /\ [][Step]_vars

(***************************************************************************)
(* Properties.                                                             *)
(***************************************************************************)
\* statement p has been executed in this run
Past(p) ==
    \/ pc = "done"
    \/ /\ Running
       /\ \E i, j \in 1..Len(Statements) : Statements[i] = p /\ Statements[j] = pc /\ i < j

Max(a, b) == IF a > b THEN a ELSE b
Loaded(name, cols) == ReadCsv(cols, csv[name])
OrderIds(df) == {r.order_id : r \in Rows(df)} \ {NULL}

\* C2: after the Cleaner, Order holds exactly one row for every order_id of
\* the loaded Order table, that row being one of the loaded rows, and
\* OrderItem holds exactly one copy of every distinct loaded row.
C2_CleanerDeduplicates ==
    Past("clean") =>
        /\ \A k \in {r.order_id : r \in BagToSet(csv.orders)} :
               CountWhere(orders_df, "order_id", k) = 1
        /\ \A r \in Rows(orders_df) : r \in BagToSet(csv.orders)
        /\ Rows(order_items_df) = BagToSet(csv.order_items)
        /\ \A r \in Rows(order_items_df) : order_items_df.rows[r] = 1

\* two differing loaded orders share an order_id, and an item row is repeated
C2_Witness ==
    /\ Past("clean")
    /\ \E a, b \in BagToSet(csv.orders) : a # b /\ a.order_id = b.order_id
    /\ \E r \in BagToSet(csv.order_items) : csv.order_items[r] > 1

UniqueKey(bag, c) ==
    \A v \in {r[c] : r \in BagToSet(bag)} : CountWhere([rows |-> bag], c, v) <= 1

FactRowsOf(i) == {f \in Rows(fact_orders_df) : Restrict(f, ItemCols) = i}
FactCountOf(i) == BagCardinality([f \in FactRowsOf(i) |-> fact_orders_df.rows[f]])
HasMatch(i, df, c) == i[c] # NULL /\ \E r \in Rows(df) : r[c] = i[c]

\* C1: with product_id unique in Product and seller_id unique in Seller, the
\* fact table has, for each order_id of the cleaned Order table, (number of
\* deduplicated items of that order) x max(1, number of its payments) rows;
\* no row for an item whose order_id has no row in Order; and an item without
\* matching product or payment appears once per payment, or once, with nulls
\* in the columns of the missing side.
C1_FactCardinality ==
    (Past("fact") /\ UniqueKey(csv.products, "product_id") /\ UniqueKey(csv.sellers, "seller_id")) =>
        /\ \A o \in OrderIds(orders_df) :
               CountWhere(fact_orders_df, "order_id", o)
                   = CountWhere(order_items_df, "order_id", o)
                       * Max(1, CountWhere(order_payments_df, "order_id", o))
        /\ \A i \in Rows(order_items_df) :
               IF HasMatch(i, orders_df, "order_id")
               THEN /\ FactCountOf(i) = Max(1, CountWhere(order_payments_df, "order_id", i.order_id))
                    /\ ~HasMatch(i, products_df, "product_id") =>
                           \A f \in FactRowsOf(i) : f.product_category_name = NullStr
                    /\ ~HasMatch(i, order_payments_df, "order_id") =>
                           \A f \in FactRowsOf(i) :
                               f.payment_type = NullStr /\ f.payment_value = NULL
               ELSE FactRowsOf(i) = {}
        /\ \A f \in Rows(fact_orders_df) : Restrict(f, ItemCols) \in Rows(order_items_df)

\* one order has two payments and an item without product; another item's
\* order is missing from Order
C1_Witness ==
    /\ Past("fact") /\ UniqueKey(csv.products, "product_id") /\ UniqueKey(csv.sellers, "seller_id")
    /\ csv.products # EmptyBag
    /\ \E i \in Rows(order_items_df) :
           /\ HasMatch(i, orders_df, "order_id")
           /\ CountWhere(order_payments_df, "order_id", i.order_id) = 2
           /\ ~HasMatch(i, products_df, "product_id")
           /\ FactCountOf(i) = 2
    /\ \E i \in Rows(order_items_df) : i.order_id # NULL /\ ~HasMatch(i, orders_df, "order_id")

\* price a is strictly greater than price b; a null price is below every price
StrictlyGreater(a, b) == a # NULL /\ (b = NULL \/ a > b)
ExpectedRank(r) ==
    1 + Cardinality({q.price : q \in {x \in Rows(fact_orders_df) :
                         x.seller_id = r.seller_id /\ StrictlyGreater(x.price, r.price)}})
ExpectedTop ==
    LET kept == {r \in Rows(fact_orders_df) : ExpectedRank(r) <= 5}
    IN  BagSum(kept, [r \in kept |->
            Single([seller_id |-> r.seller_id, product_id |-> r.product_id,
                    price |-> r.price, rank |-> ExpectedRank(r)], fact_orders_df.rows[r])])

\* C3: in every seller_id partition of the fact table a row's rank is 1 plus
\* the number of distinct prices of the partition strictly greater than its
\* price (a null price being below every price), and the result is exactly
\* the fact rows of rank <= 5, projected, with their rank.
C3_DenseRankTop5 ==
    Past("rank") => top_seller_products_df.rows = ExpectedTop

\* a partition with a tie, a row of rank 2 or more, and a row cut by the filter
C3_Witness ==
    /\ Past("rank")
    /\ \E a, b \in Rows(fact_orders_df) :
           a # b /\ a.seller_id = b.seller_id /\ a.price = b.price /\ a.price # NULL
    /\ \E r \in Rows(fact_orders_df) : ExpectedRank(r) > 5
    /\ \E r \in Rows(top_seller_products_df) : r.rank = 5

\* seq is what a count-descending, truncated-to-10 report of df grouped by
\* customer_id may show
IsFrequencyReport(seq, df) ==
    LET customers == {r.customer_id : r \in Rows(df)}
        shown == {seq[i].key : i \in 1..Len(seq)}
    IN  /\ Len(seq) = Min(10, Cardinality(customers))
        /\ \A i \in 1..Len(seq) :
               /\ seq[i].key \in customers
               /\ seq[i].count = CountWhere(df, "customer_id", seq[i].key)
        /\ \A i, j \in 1..Len(seq) : i < j => seq[i].key # seq[j].key /\ seq[i].count >= seq[j].count
        /\ \A c \in customers \ shown, i \in 1..Len(seq) :
               CountWhere(df, "customer_id", c) <= seq[i].count

\* C10 as stated: the report counts the rows of the Order table as loaded.
C10_CountsRawOrders ==
    Past("freq") => IsFrequencyReport(customer_freq, Loaded("orders", OrderCols))

\* C10 amended: the report counts the rows of the cleaned Order table (one
\* row per order_id), per customer_id, descending, truncated to 10.
C10_CountsCleanedOrders ==
    Past("freq") => IsFrequencyReport(customer_freq, orders_df)

\* an order_id is repeated in the loaded table and more than 10 customers exist
C10_Witness ==
    /\ Past("freq")
    /\ \E a, b \in BagToSet(csv.orders) : a # b /\ a.order_id = b.order_id
    /\ Cardinality({r.customer_id : r \in Rows(orders_df)}) > 10
    /\ Len(customer_freq) = 10

\* C4: after a second successful run on the same input the file set and the
\* catalog entry equal those after the first.
C4_RerunIdempotent ==
    (run > 1 /\ pc = "done" /\ prev_ok) => (files = files_prev /\ catalog = catalog_prev)

\* C5: the written file set has exactly the columns of the catalog table.
C5_FileSchemaIsCatalogSchema ==
    \A l \in Locations : files[l] # NoFile => files[l].cols = HiveCols

\* C6: when a run ends, normally or by a failure, the session it created has
\* been stopped.
C6_SessionReleased ==
    Ended => session # "active"

\* C7: registration happens only after a successful write and validation
\* only after registration; a run whose write failed has aborted there and
\* left the catalog as it was when the run started.
C7_WriteFailureAborts ==
    /\ registered => write_ok
    /\ validated => registered
    /\ ~write_ok => catalog = catalog0
    /\ failed_at = "write" =>
           pc = "aborted" /\ ~write_ok /\ ~registered /\ ~validated /\ catalog = catalog0

\* the overwrite of a second run fails after it removed the files of the first
C7_Witness ==
    /\ failed_at = "write" /\ pc = "aborted"
    /\ prev_ok /\ catalog0 # NoTable
    /\ files[FactLocation(output_path)] = NoFile

\* C8: when the validation query fails the failure is reported, the run ends
\* with a non-zero status, and the file set written and the catalog entry
\* registered by the run stay as they are.
C8_ValidationFailure ==
    failed_at = "validate" =>
        /\ pc = "aborted"
        /\ stderr # ""
        /\ exit_code # <<>> /\ exit_code[1] # 0
        /\ write_ok /\ files[FactLocation(output_path)] = fact_orders_df
        /\ registered /\ catalog # NoTable
        /\ catalog0 # NoTable => catalog = catalog0
        /\ catalog0 = NoTable => catalog = HiveTable

\* the first run registers the table and its validation query fails
C8_Witness ==
    failed_at = "validate" /\ Ended /\ catalog0 = NoTable /\ catalog = HiveTable

\* C9: after a successful run the catalog table is bound to the location the
\* run wrote to.
C9_CatalogBoundToWrittenLocation ==
    pc = "done" => catalog.location = FactLocation(output_path)

====
